---- MODULE Spec2Model ----
(***************************************************************************)
(* Model of src/main.py: a backup script that, at import, configures       *)
(* logging, loads and validates its environment, creates the backup        *)
(* directory and a storage client, and then runs one pipeline pass         *)
(* (dump -> upload -> retention).  One or two executions of the script     *)
(* ("runs") share a clock, the backup directory and the remote bucket.     *)
(***************************************************************************)
EXTENDS Integers, Sequences, FiniteSets, TLC

(***************************************************************************)
(* Bounds of the model.                                                    *)
(***************************************************************************)
\* how many environment keys may deviate (unset or empty) from a full environment
MaxOddKeys == 2
\* how many entries the backup directory holds before the run starts
MaxOld == 3
\* how many clock ticks may pass while the runs execute
MaxTicks == 2
\* clock resolution: ticks per second (timestamps only have second resolution)
TicksPerSec == 2
\* how many entries the directory holds before two overlapping runs start
MaxOldOverlap == 1
\* how many entries the directory holds where progress is checked
MaxOldFair == 1

(***************************************************************************)
(* Program constants.                                                      *)
(***************************************************************************)
\* timedelta.days counts whole days of 86400 seconds
SecondsPerDay == 86400
\* cleanup_old_backups(days=7)
RetentionDays == 7

Day == SecondsPerDay * TicksPerSec
\* the clock counts ticks since 2024-01-01 00:00:00; the runs start on 2024-01-11
T0 == 10 * Day

Runs == {1, 2}

\* Python's None, as a value distinct from every string the model uses
None == "<None>"

(***************************************************************************)
(* Strings.                                                                *)
(***************************************************************************)
\* sub occurs in s (Python: sub in s)
Contains(s, sub) ==
    \E i \in 1..(Len(s) - Len(sub) + 1) : SubSeq(s, i, i + Len(sub) - 1) = sub

\* positions of "/" in s
SlashAt(s) == {i \in 1..Len(s) : SubSeq(s, i, i) = "/"}

Max(S) == CHOOSE x \in S : \A y \in S : y <= x

\* os.path.basename: what follows the last "/"
Basename(p) ==
    IF SlashAt(p) = {} THEN p ELSE SubSeq(p, Max(SlashAt(p)) + 1, Len(p))

\* os.path.join(a, b) for a relative b
PathJoin(a, b) ==
    IF a = "" THEN b
    ELSE IF SubSeq(a, Len(a), Len(a)) = "/" THEN a \o b
    ELSE a \o "/" \o b

\* "%02d"
Pad2(n) == IF n < 10 THEN "0" \o ToString(n) ELSE ToString(n)

\* datetime.now().strftime("%Y%m%d_%H%M%S") at clock value t (January 2024)
Strftime(t) ==
    LET sec == t \div TicksPerSec
        d   == sec \div SecondsPerDay
        s   == sec % SecondsPerDay
    IN  "202401" \o Pad2(1 + d) \o "_" \o Pad2(s \div 3600)
            \o Pad2((s % 3600) \div 60) \o Pad2(s % 60)

RECURSIVE JoinComma(_)
\* ', '.join(seq)
JoinComma(seq) ==
    IF seq = <<>> THEN ""
    ELSE IF Len(seq) = 1 THEN seq[1]
    ELSE seq[1] \o ", " \o JoinComma(Tail(seq))

\* the elements of seq that satisfy Test, in order
RECURSIVE SelectKeys(_, _)
SelectKeys(seq, S) ==
    IF seq = <<>> THEN <<>>
    ELSE (IF seq[1] \in S THEN <<seq[1]>> ELSE <<>>) \o SelectKeys(Tail(seq), S)

(***************************************************************************)
(* Configuration (lines 19-52).                                            *)
(***************************************************************************)
\* the keys of required_env_vars, in dict order
KeyOrder ==
    << "DB_CONTAINER_NAME", "DB_NAME", "DB_USER", "SUPABASE_URL",
       "SUPABASE_KEY", "SUPABASE_BUCKET", "BACKUP_DIR", "DB_PASSWORD" >>

Keys == {KeyOrder[i] : i \in 1..Len(KeyOrder)}

\* the keys the spec calls required: BACKUP_DIR has a default
RequiredKeys == Keys \ {"BACKUP_DIR"}

\* a full, sensible environment
FullEnv ==
    [ DB_CONTAINER_NAME |-> "pg", DB_NAME |-> "appdb", DB_USER |-> "admin",
      SUPABASE_URL |-> "https://x.supabase.co", SUPABASE_KEY |-> "k3y",
      SUPABASE_BUCKET |-> "bkp", BACKUP_DIR |-> "/tmp/b",
      DB_PASSWORD |-> "s3cret" ]

\* FullEnv with the keys of unset removed and the keys of empty set to ""
EnvWith(unset, empty) ==
    [k \in Keys \ unset |-> IF k \in empty THEN "" ELSE FullEnv[k]]

\* the environments the runs may be started in
Environments ==
    { EnvWith(odd \ empty, empty) :
        <<odd, empty>> \in
          { p \in (SUBSET Keys) \X (SUBSET Keys) :
              /\ p[2] \subseteq p[1]
              /\ Cardinality(p[1]) <= MaxOddKeys } }

\* the .env files load_dotenv may find: none, or one that sets two keys
EmptyFile == [k \in {} |-> ""]
DotenvFiles == {EmptyFile, [k \in {"DB_NAME", "DB_PASSWORD"} |-> FullEnv[k]]}

\* os.getenv(key, default)
Getenv(env, key, default) == IF key \in DOMAIN env THEN env[key] ELSE default

\* a slip: the password is read with a default, as BACKUP_DIR is
required_env_vars_defaulted(env) ==
    [k \in Keys |->
        IF k = "BACKUP_DIR" THEN Getenv(env, k, "backups")
        ELSE IF k = "DB_PASSWORD" THEN Getenv(env, k, "")
        ELSE Getenv(env, k, None)]

\* lines 22-31
required_env_vars(env) ==
    [k \in Keys |->
        IF k = "BACKUP_DIR" THEN Getenv(env, k, "backups") ELSE Getenv(env, k, None)]

\* line 34
missing_vars(env) ==
    SelectKeys(KeyOrder, {k \in Keys : required_env_vars(env)[k] = None})

\* the message of the ValueError of line 36
MissingMessage(env) ==
    "Missing required environment variables: " \o JoinComma(missing_vars(env))

(***************************************************************************)
(* The backup directory.                                                   *)
(***************************************************************************)
\* the name of the i-th entry the directory holds before the runs start
OldName(i) == "old" \o ToString(i) \o ".sql"

\* what such an entry may be: kind is what os.path.isfile looks at, mtime what
\* os.path.getmtime returns, fault the call that raises OSError on it
\* ("stat": os.path.getmtime, "remove": os.remove)
OldFile(m, f) == [kind |-> "file", mtime |-> m, content |-> "old dump", fault |-> f]

OldOther(k) ==
    [kind |-> k, mtime |-> T0 - (RetentionDays + 1) * Day, content |-> "",
     fault |-> "none"]

OldEntries ==
    << OldFile(T0, "none"),
       OldFile(T0 - RetentionDays * Day, "none"),
       OldFile(T0 - (RetentionDays + 1) * Day + 1, "none"),
       OldFile(T0 - (RetentionDays + 1) * Day, "none"),
       OldFile(T0 - (RetentionDays + 1) * Day, "stat"),
       OldFile(T0 - (RetentionDays + 1) * Day, "remove"),
       OldOther("dir"),
       OldOther("other") >>

\* the directories the runs may find: n entries, named old1 .. oldn; the names
\* carry no meaning (os.listdir returns them in any order), so the entries are
\* taken in the order of OldEntries
Directories(max) ==
    UNION { { [nm \in {OldName(i) : i \in 1..n} |->
                  OldEntries[g[CHOOSE i \in 1..n : OldName(i) = nm]]] :
              g \in {h \in [1..n -> 1..Len(OldEntries)] :
                        \A i \in 1..(n - 1) : h[i] <= h[i + 1]} } :
            n \in 0..max }

\* f without the entry named name
Without(f, name) == [n \in DOMAIN f \ {name} |-> f[n]]

\* os.path.isfile on an entry of the directory
IsFile(dir, name) == name \in DOMAIN dir /\ dir[name].kind = "file"

\* (now - datetime.fromtimestamp(mtime)).days: whole days, rounded down
FileAge(nowT, mtime) == (nowT - mtime) \div Day

\* what the dump tool of run r writes to its standard output
DumpOut(r) == "SELECT " \o ToString(r) \o ";"

\* what it may have written when it exits non-zero
PartialOut(r) == {"", "SELECT"}

(***************************************************************************)
(* State.                                                                  *)
(***************************************************************************)
VARIABLES
    clock,       \* the time, in ticks
    dotenv,      \* the .env file
    fs,          \* the backup directory: entry name -> entry
    dirExists,   \* the backup directory exists
    bucket,      \* the remote bucket: the keys stored in it
    uploads,     \* the upload calls made to the storage client
    pc,          \* where each run is
    environ,     \* os.environ of each run
    events,      \* what each run has done, in order
    exc,         \* the exception that ended the run, if any
    errmsg,      \* its message
    bd_file,     \* backup_database's local backup_file
    proc,        \* how the dump process of the run ended
    argv,        \* the argument list given to subprocess.run
    child_env,   \* the environment the child process was given
    ret,         \* the module-level backup_file (line 117)
    nowT,        \* cleanup_old_backups' now
    todo,        \* the entries the scan has not reached yet
    listing,     \* the directory as os.listdir found it
    deleted      \* the entries the run has removed

vars ==
    << clock, dotenv, fs, dirExists, bucket, uploads, pc, environ, events, exc,
       errmsg, bd_file, proc, argv, child_env, ret, nowT, todo, listing, deleted >>

fsVars == << fs, dirExists, bucket, uploads >>
dumpVars == << bd_file, proc, argv, child_env, ret >>
scanVars == << nowT, todo, listing, deleted >>

\* the module-level constants of lines 39-46
Config(r) == required_env_vars(environ[r])

Did(r, e) == \E i \in 1..Len(events[r]) : events[r][i] = e

Log(r, e) == events' = [events EXCEPT ![r] = Append(@, e)]

Goto(r, l) == pc' = [pc EXCEPT ![r] = l]

\* an exception leaves the module: the run ends
Raise(r, type, msg) ==
    /\ pc' = [pc EXCEPT ![r] = "crashed"]
    /\ exc' = [exc EXCEPT ![r] = type]
    /\ errmsg' = [errmsg EXCEPT ![r] = msg]

NoRaise == UNCHANGED << exc, errmsg >>

InitRun(launched, env, file) ==
    /\ pc = [r \in Runs |-> IF r \in launched THEN "logging" ELSE "off"]
    /\ environ = [r \in Runs |-> env]
    /\ dotenv = file
    /\ clock = T0
    /\ bucket = {}
    /\ uploads = <<>>
    /\ events = [r \in Runs |-> <<>>]
    /\ exc = [r \in Runs |-> None]
    /\ errmsg = [r \in Runs |-> ""]
    /\ bd_file = [r \in Runs |-> None]
    /\ proc = [r \in Runs |-> "notrun"]
    /\ argv = [r \in Runs |-> <<>>]
    /\ child_env = [r \in Runs |-> EmptyFile]
    /\ ret = [r \in Runs |-> None]
    /\ nowT = [r \in Runs |-> 0]
    /\ todo = [r \in Runs |-> {}]
    /\ listing = [r \in Runs |-> EmptyFile]
    /\ deleted = [r \in Runs |-> {}]

\* one execution of the script: in any environment, with an empty backup
\* directory that may not exist yet, or in a full environment, with any directory
InitOne(maxOld) ==
    \/ /\ \E env \in Environments, file \in DotenvFiles : InitRun({1}, env, file)
       /\ fs = EmptyFile
       /\ dirExists \in BOOLEAN
    \/ /\ InitRun({1}, FullEnv, EmptyFile)
       /\ fs \in Directories(maxOld)
       /\ dirExists = TRUE

Init == InitOne(MaxOld)

\* the same, with the smaller directories progress is checked in
InitFair == InitOne(MaxOldFair)

\* two executions of the script that may overlap, in one of a few environments
OverlapEnvironments ==
    { FullEnv, EnvWith({"DB_NAME"}, {}), EnvWith({}, {"BACKUP_DIR"}),
      EnvWith({}, {"SUPABASE_URL"}) }

InitOverlap ==
    /\ \E env \in OverlapEnvironments : InitRun(Runs, env, EmptyFile)
    /\ fs \in Directories(MaxOldOverlap)
    /\ dirExists = TRUE

(***************************************************************************)
(* Module load (lines 8-52).                                               *)
(***************************************************************************)
\* lines 9-16: logging.FileHandler opens database_backup.log
BasicConfig(r) ==
    /\ pc[r] = "logging"
    /\ Log(r, "open:database_backup.log")
    /\ Goto(r, "dotenv")
    /\ NoRaise
    /\ UNCHANGED << clock, dotenv, fsVars, environ, dumpVars, scanVars >>

\* line 19: load_dotenv() reads .env and sets the keys the environment lacks
LoadDotenv(r) ==
    /\ pc[r] = "dotenv"
    /\ environ' = [environ EXCEPT ![r] = @ @@ dotenv]
    /\ Log(r, "read:.env")
    /\ Goto(r, "checkenv")
    /\ NoRaise
    /\ UNCHANGED << clock, dotenv, fsVars, dumpVars, scanVars >>

\* lines 22-46
CheckEnv(r) ==
    /\ pc[r] = "checkenv"
    /\ \/ /\ missing_vars(environ[r]) # <<>>
          /\ Raise(r, "ValueError", MissingMessage(environ[r]))
       \/ /\ missing_vars(environ[r]) = <<>>
          /\ Goto(r, "makedirs")
          /\ NoRaise
    /\ UNCHANGED << clock, dotenv, fsVars, environ, events, dumpVars, scanVars >>

\* line 49: os.makedirs(BACKUP_DIR, exist_ok=True)
MakeDirs(r) ==
    /\ pc[r] = "makedirs"
    /\ \/ /\ Config(r).BACKUP_DIR = ""
          /\ Raise(r, "FileNotFoundError", "")
          /\ UNCHANGED << dirExists, events >>
       \/ /\ Config(r).BACKUP_DIR # ""
          /\ dirExists' = TRUE
          /\ Log(r, "makedirs")
          /\ Goto(r, "client")
          /\ NoRaise
    /\ UNCHANGED << clock, dotenv, fs, bucket, uploads, environ, dumpVars, scanVars >>

\* line 52: create_client refuses an empty URL or key
CreateClient(r) ==
    /\ pc[r] = "client"
    /\ \/ /\ Config(r).SUPABASE_URL = "" \/ Config(r).SUPABASE_KEY = ""
          /\ Raise(r, "SupabaseException", "")
          /\ UNCHANGED events
       \/ /\ Config(r).SUPABASE_URL # "" /\ Config(r).SUPABASE_KEY # ""
          /\ Log(r, "create_client")
          /\ Goto(r, "main")
          /\ NoRaise
    /\ UNCHANGED << clock, dotenv, fsVars, environ, dumpVars, scanVars >>

\* where a run is about to read the clock: datetime.now() (lines 56, 106) and
\* the modification times the file system stamps (lines 72, 73)
ClockReaders == {"main", "open", "run", "cleanup"}

\* time passes; only its passing before a reading of the clock can be observed
Tick ==
    /\ clock < T0 + MaxTicks
    /\ \E r \in Runs : pc[r] \in ClockReaders
    /\ clock' = clock + 1
    /\ UNCHANGED << dotenv, fsVars, pc, environ, events, exc, errmsg, dumpVars,
                    scanVars >>

(***************************************************************************)
(* Dump stage: backup_database (lines 54-86).                              *)
(***************************************************************************)
\* lines 60-69
cmd(c) ==
    << "docker", "exec", "-e", "PGPASSWORD=" \o c.DB_PASSWORD,
       c.DB_CONTAINER_NAME, "pg_dump", "-U", c.DB_USER, "-h", "postgres",
       "-p", "5432", c.DB_NAME >>

\* line 57
BackupFile(c, t) == PathJoin(c.BACKUP_DIR, "db_backup_" \o Strftime(t) \o ".sql")

\* line 116, then lines 56-57 of backup_database
MainStart(r) ==
    /\ pc[r] = "main"
    /\ Log(r, "backup_database:call")
    /\ bd_file' = [bd_file EXCEPT ![r] = BackupFile(Config(r), clock)]
    /\ Goto(r, "open")
    /\ NoRaise
    /\ UNCHANGED << clock, dotenv, fsVars, environ, proc, argv, child_env, ret,
                    scanVars >>

\* a slip: the except branches return the path too
ReturnPath(r, v) ==
    /\ ret' = [ret EXCEPT ![r] = bd_file[r]]
    /\ Log(r, "backup_database:return")
    /\ Goto(r, "if")
    /\ NoRaise

\* backup_database returns v to line 117
Return(r, v) ==
    /\ ret' = [ret EXCEPT ![r] = v]
    /\ Log(r, "backup_database:return")
    /\ Goto(r, "if")
    /\ NoRaise

\* line 72: open(backup_file, "w") creates the file or truncates it; an OSError
\* is caught at line 84
OpenOutput(r) ==
    /\ pc[r] = "open"
    /\ \/ /\ fs' = (Basename(bd_file[r]) :>
                      [kind |-> "file", mtime |-> clock, content |-> "",
                       fault |-> "none"]) @@ fs
          /\ Goto(r, "run")
          /\ NoRaise
          /\ UNCHANGED << events, ret >>
       \/ /\ Return(r, None)
          /\ UNCHANGED fs
    /\ UNCHANGED << clock, dotenv, dirExists, bucket, uploads, environ, bd_file,
                    proc, argv, child_env, scanVars >>

\* the child writes out to the file the run opened
ChildWrites(r, out) ==
    fs' = IF Basename(bd_file[r]) \in DOMAIN fs
          THEN [fs EXCEPT ![Basename(bd_file[r])].content = out,
                          ![Basename(bd_file[r])].mtime = clock]
          ELSE fs

\* lines 73-86: subprocess.run(cmd, stdout=output_file, check=True)
RunDump(r) ==
    /\ pc[r] = "run"
    /\ argv' = [argv EXCEPT ![r] = cmd(Config(r))]
    /\ \/ \* the launcher cannot start docker: caught at line 84
          /\ proc' = [proc EXCEPT ![r] = "launchfail"]
          /\ child_env' = child_env
          /\ Return(r, None)
          /\ UNCHANGED fs
       \/ \* non-zero exit: CalledProcessError, caught at line 81
          /\ proc' = [proc EXCEPT ![r] = "nonzero"]
          /\ child_env' = [child_env EXCEPT ![r] = environ[r]]
          /\ \E out \in PartialOut(r) : ChildWrites(r, out)
          /\ Return(r, None)
       \/ \* exit code 0: lines 79-80
          /\ proc' = [proc EXCEPT ![r] = "zero"]
          /\ child_env' = [child_env EXCEPT ![r] = environ[r]]
          /\ ChildWrites(r, DumpOut(r))
          /\ Return(r, bd_file[r])
    /\ UNCHANGED << clock, dotenv, dirExists, bucket, uploads, environ, bd_file,
                    scanVars >>

\* a slip: the result of backup_database is not tested
MainIfAlways(r) ==
    /\ pc[r] = "if"
    /\ Log(r, "upload_to_supabase:call")
    /\ Goto(r, "upload")
    /\ NoRaise
    /\ UNCHANGED << clock, dotenv, fsVars, environ, dumpVars, scanVars >>

\* line 118: if backup_file
MainIf(r) ==
    /\ pc[r] = "if"
    /\ \/ /\ ret[r] \notin {None, ""}
          /\ Log(r, "upload_to_supabase:call")
          /\ Goto(r, "upload")
       \/ /\ ret[r] \in {None, ""}
          /\ UNCHANGED events
          /\ Goto(r, "finish")
    /\ NoRaise
    /\ UNCHANGED << clock, dotenv, fsVars, environ, dumpVars, scanVars >>

(***************************************************************************)
(* Upload stage: upload_to_supabase (lines 88-102).                        *)
(***************************************************************************)
\* a slip: the object is stored under the path, not the base name
UploadCallPath(r, key, res) ==
    uploads' = Append(uploads, [run |-> r, key |-> ret[r], result |-> res])

\* line 95: supabase.storage.from_(SUPABASE_BUCKET).upload(file_name, file_data)
UploadCall(r, key, res) ==
    uploads' = Append(uploads, [run |-> r, key |-> key, result |-> res])

\* a slip: the exception is logged and raised again
UploadEscapes(r) ==
    /\ Log(r, "upload_to_supabase:failed")
    /\ Raise(r, "Exception", "")

\* lines 99-102: the exception is logged, and upload_to_supabase returns
UploadCaught(r) ==
    /\ Log(r, "upload_to_supabase:failed")
    /\ Goto(r, "cleanup")
    /\ NoRaise

\* line 119: upload_to_supabase(backup_file)
Upload(r) ==
    /\ pc[r] = "upload"
    /\ LET file_name == Basename(ret[r]) IN
         \/ \* line 94: open(file_path, "rb") raises
            /\ UNCHANGED << bucket, uploads >>
            /\ UploadCaught(r)
         \/ \* line 95: the storage client raises: the key is taken, or any other error
            /\ file_name \in DOMAIN fs
            /\ UploadCall(r, file_name, "error")
            /\ UNCHANGED bucket
            /\ UploadCaught(r)
         \/ \* lines 95-97: the storage client accepts the object
            /\ file_name \in DOMAIN fs
            /\ file_name \notin bucket
            /\ UploadCall(r, file_name, "ok")
            /\ bucket' = bucket \cup {file_name}
            /\ Log(r, "upload_to_supabase:done")
            /\ Goto(r, "cleanup")
            /\ NoRaise
    /\ UNCHANGED << clock, dotenv, fs, dirExists, environ, dumpVars, scanVars >>

(***************************************************************************)
(* Retention stage: cleanup_old_backups (lines 104-113).                   *)
(***************************************************************************)
\* line 120, then lines 106-107: now, os.listdir(BACKUP_DIR)
CleanupStart(r) ==
    /\ pc[r] = "cleanup"
    /\ nowT' = [nowT EXCEPT ![r] = clock]
    /\ listing' = [listing EXCEPT ![r] = fs]
    /\ todo' = [todo EXCEPT ![r] = DOMAIN fs]
    /\ Log(r, "cleanup_old_backups:call")
    /\ Goto(r, "scan")
    /\ NoRaise
    /\ UNCHANGED << clock, dotenv, fsVars, environ, dumpVars, deleted >>

\* a variant: the error is swallowed and the scan goes on
ScanSkips(r, f) == UNCHANGED << pc, exc, errmsg >>

\* lines 110 and 112 stand in no try block: the OSError leaves cleanup_old_backups
\* and the module
ScanFails(r, f) == Raise(r, "OSError", f)

\* a slip: >= for >
TooOldGE(age, days) == age >= days

\* file_age > days (line 111)
TooOld(age, days) == age > days

\* lines 108-113: one iteration of the loop, on any entry not yet reached
ScanEntry(r) ==
    /\ pc[r] = "scan"
    /\ \E f \in todo[r] :
         /\ todo' = [todo EXCEPT ![r] = @ \ {f}]
         /\ \/ \* line 109: not a regular file (or gone): skipped
               /\ ~IsFile(fs, f)
               /\ UNCHANGED << fs, deleted, pc, exc, errmsg >>
            \/ \* line 110: os.path.getmtime raises
               /\ IsFile(fs, f)
               /\ fs[f].fault = "stat"
               /\ ScanFails(r, f)
               /\ UNCHANGED << fs, deleted >>
            \/ \* line 111: not older than days
               /\ IsFile(fs, f)
               /\ fs[f].fault # "stat"
               /\ ~TooOld(FileAge(nowT[r], fs[f].mtime), RetentionDays)
               /\ UNCHANGED << fs, deleted, pc, exc, errmsg >>
            \/ \* line 112: os.remove raises
               /\ IsFile(fs, f)
               /\ fs[f].fault = "remove"
               /\ TooOld(FileAge(nowT[r], fs[f].mtime), RetentionDays)
               /\ ScanFails(r, f)
               /\ UNCHANGED << fs, deleted >>
            \/ \* lines 112-113: removed
               /\ IsFile(fs, f)
               /\ fs[f].fault = "none"
               /\ TooOld(FileAge(nowT[r], fs[f].mtime), RetentionDays)
               /\ fs' = Without(fs, f)
               /\ deleted' = [deleted EXCEPT ![r] = @ \cup {f}]
               /\ UNCHANGED << pc, exc, errmsg >>
    /\ UNCHANGED << clock, dotenv, dirExists, bucket, uploads, environ, events,
                    dumpVars, nowT, listing >>

\* the loop of line 107 ends: cleanup_old_backups returns
CleanupEnd(r) ==
    /\ pc[r] = "scan"
    /\ todo[r] = {}
    /\ Log(r, "cleanup_old_backups:return")
    /\ Goto(r, "finish")
    /\ NoRaise
    /\ UNCHANGED << clock, dotenv, fsVars, environ, dumpVars, scanVars >>

\* line 121: "Backup process completed"
Finish(r) ==
    /\ pc[r] = "finish"
    /\ Log(r, "completed")
    /\ Goto(r, "done")
    /\ NoRaise
    /\ UNCHANGED << clock, dotenv, fsVars, environ, dumpVars, scanVars >>

(***************************************************************************)
(* Specifications.                                                         *)
(***************************************************************************)
Step(r) ==
    \/ BasicConfig(r)
    \/ LoadDotenv(r)
    \/ CheckEnv(r)
    \/ MakeDirs(r)
    \/ CreateClient(r)
    \/ MainStart(r)
    \/ OpenOutput(r)
    \/ RunDump(r)
    \/ MainIf(r)
    \/ Upload(r)
    \/ CleanupStart(r)
    \/ ScanEntry(r)
    \/ CleanupEnd(r)
    \/ Finish(r)

\* some run takes a step
Run == \E r \in Runs : Step(r)

Next == Tick \/ Run

\* one execution of the script
Spec == Init /\ [][Next]_vars

\* two executions, in any interleaving
SpecOverlap == InitOverlap /\ [][Next]_vars

\* the interpreter keeps executing: while the run can take a step, it takes one
FairSpec == InitFair /\ [][Next]_vars /\ WF_vars(Run)

(***************************************************************************)
(* Properties.                                                             *)
(***************************************************************************)
\* where event e stands in the history of run r
Pos(r, e) == CHOOSE i \in 1..Len(events[r]) : events[r][i] = e

UploadFinished(r) ==
    Did(r, "upload_to_supabase:failed") \/ Did(r, "upload_to_supabase:done")

DumpFailedQuietly ==
    \A r \in Runs :
        proc[r] = "nonzero" =>
            /\ ~Did(r, "upload_to_supabase:call")
            /\ ~UploadFinished(r)
            /\ ~Did(r, "cleanup_old_backups:call")
            /\ \A i \in 1..Len(uploads) : uploads[i].run # r
            /\ exc[r] = None
            /\ pc[r] \in {"if", "finish", "done"}
            /\ ret[r] = None

\* C1: when the dump command exits non-zero, the run calls neither the upload
\* stage nor the retention stage, no exception leaves backup_database, and the
\* run goes on to its normal end, "Backup process completed".
C1_FailedDumpSkipsStages ==
    /\ []DumpFailedQuietly
    /\ \A r \in Runs :
          (proc[r] = "nonzero") ~> (pc[r] = "done" /\ Did(r, "completed"))

\* a run whose dump exited non-zero has completed
C1_Witness == proc[1] = "nonzero" /\ pc[1] = "done" /\ Did(1, "completed")

UploadErrorCaught ==
    \A r \in Runs :
        Did(r, "upload_to_supabase:failed") =>
            /\ proc[r] = "zero"
            /\ exc[r] \in {None, "OSError"}
            /\ Did(r, "cleanup_old_backups:call") \/ pc[r] = "cleanup"

RetentionAfterUpload ==
    \A r \in Runs :
        Did(r, "cleanup_old_backups:call") =>
            /\ UploadFinished(r)
            /\ \A e \in {"upload_to_supabase:failed", "upload_to_supabase:done"} :
                  Did(r, e) => Pos(r, e) < Pos(r, "cleanup_old_backups:call")

\* C2: after a successful dump an error of the upload (from the storage client
\* or from opening the file) stays inside upload_to_supabase; the retention
\* stage is called in every such run, whatever the upload's outcome, and only
\* once the upload attempt has finished.
C2_RetentionRunsAfterUpload ==
    /\ []UploadErrorCaught
    /\ []RetentionAfterUpload
    /\ \A r \in Runs : (proc[r] = "zero") ~> Did(r, "cleanup_old_backups:call")

\* the storage client raised, and the retention stage ran to its end
C2_Witness ==
    /\ \E i \in 1..Len(uploads) : uploads[i].run = 1 /\ uploads[i].result = "error"
    /\ Did(1, "upload_to_supabase:failed")
    /\ Did(1, "cleanup_old_backups:return")

\* C6: backup_database returns the path of the backup file exactly when the dump
\* process was launched and exited with code 0; after a non-zero exit, a failure
\* to launch or a failure to open the output file it returns None; it never
\* raises.
C6_ReturnsPathIffCleanExit ==
    \A r \in Runs :
        /\ Did(r, "backup_database:return") =>
              /\ (ret[r] # None) <=> (proc[r] = "zero")
              /\ proc[r] = "zero" =>
                    ret[r] = PathJoin(Config(r).BACKUP_DIR, Basename(ret[r]))
                    /\ IsFile(fs, Basename(ret[r]))
              /\ proc[r] \in {"nonzero", "launchfail", "notrun"} => ret[r] = None
        /\ (Did(r, "backup_database:call") /\ ~Did(r, "backup_database:return")) =>
              pc[r] \in {"open", "run"} /\ exc[r] = None

\* the three failures, each with a None returned: here the launch failure
C6_Witness ==
    /\ Did(1, "backup_database:return")
    /\ proc[1] = "launchfail"
    /\ ret[1] = None
    /\ pc[1] = "done"

\* entry f of the directory that run r listed is a regular file whose last
\* modification lies more than days whole days before the run's now
RegularAndOlder(r, f, days) ==
    /\ listing[r][f].kind = "file"
    /\ nowT[r] - listing[r][f].mtime >= (days + 1) * Day

\* C3: once cleanup_old_backups(7) has returned, an entry that was in the
\* directory when it started is gone if and only if it is a regular file whose
\* age in whole days is more than 7: a file aged exactly 7 days stays, and so
\* does every sub-directory.
C3_DeletedIffRegularAndOlder ==
    \A r \in Runs :
        Did(r, "cleanup_old_backups:return") =>
            \A f \in DOMAIN listing[r] :
                /\ (f \notin DOMAIN fs) <=> RegularAndOlder(r, f, RetentionDays)
                /\ (f \in deleted[r]) <=> (f \notin DOMAIN fs)
                /\ f \in DOMAIN fs => fs[f] = listing[r][f]

\* a scan that removed a file of 8 days, kept one of exactly 7 days, and returned
C3_Witness ==
    /\ Did(1, "cleanup_old_backups:return")
    /\ \E f, g \in DOMAIN listing[1] :
          /\ f \in deleted[1]
          /\ nowT[1] - listing[1][f].mtime = (RetentionDays + 1) * Day
          /\ g \in DOMAIN fs
          /\ fs[g].kind = "file"
          /\ nowT[1] - fs[g].mtime = RetentionDays * Day

UploadsOf(r) == {i \in 1..Len(uploads) : uploads[i].run = r}

\* C9: a run whose dump succeeded and whose upload was accepted has made exactly
\* one upload call, under the base name of the file the dump created; the file
\* is still in the directory with the dump's output, and when it was the only
\* entry the retention stage found, nothing was deleted.
C9_OneUploadUnderBaseName ==
    \A r \in Runs :
        (pc[r] = "done" /\ proc[r] = "zero" /\ Did(r, "upload_to_supabase:done")) =>
            /\ Cardinality(UploadsOf(r)) = 1
            /\ \A i \in UploadsOf(r) :
                  /\ uploads[i].result = "ok"
                  /\ SlashAt(uploads[i].key) = {}
                  /\ PathJoin(Config(r).BACKUP_DIR, uploads[i].key) = ret[r]
                  /\ SubSeq(uploads[i].key, 1, 10) = "db_backup_"
                  /\ uploads[i].key \in bucket
                  /\ IsFile(fs, uploads[i].key)
                  /\ fs[uploads[i].key].content = DumpOut(r)
                  /\ DOMAIN listing[r] = {uploads[i].key} => deleted[r] = {}

\* the end-to-end scenario: BACKUP_DIR=/tmp/b, the dump written, one upload, no
\* deletion
C9_Witness ==
    /\ pc[1] = "done"
    /\ proc[1] = "zero"
    /\ Did(1, "upload_to_supabase:done")
    /\ Config(1).BACKUP_DIR = "/tmp/b"
    /\ DOMAIN listing[1] = {Basename(ret[1])}
    /\ DOMAIN fs = {Basename(ret[1])}
    /\ deleted[1] = {}

\* the scan of run r reached entry f and os.path.getmtime or os.remove raised
FaultHit(r, f) ==
    /\ f \in DOMAIN listing[r] \ todo[r]
    /\ listing[r][f].kind = "file"
    /\ \/ listing[r][f].fault = "stat"
       \/ /\ listing[r][f].fault = "remove"
          /\ nowT[r] - listing[r][f].mtime >= (RetentionDays + 1) * Day

\* C10: an error of os.path.getmtime or os.remove during the scan is not
\* handled: it ends the run, which never logs its completion; the entries the
\* scan had not reached stay as they were, however old, and the files it had
\* removed stay removed.
C10_ScanErrorEndsRun ==
    \A r \in Runs :
        /\ (\E f \in DOMAIN listing[r] : FaultHit(r, f)) =>
              /\ pc[r] = "crashed"
              /\ exc[r] = "OSError"
        /\ exc[r] = "OSError" =>
              /\ pc[r] = "crashed"
              /\ \E f \in DOMAIN listing[r] : FaultHit(r, f) /\ errmsg[r] = f
              /\ ~Did(r, "cleanup_old_backups:return")
              /\ ~Did(r, "completed")
              /\ \A f \in todo[r] : f \in DOMAIN fs /\ fs[f] = listing[r][f]
              /\ \A f \in deleted[r] : f \notin DOMAIN fs

\* os.remove failed after one file was removed and before a file of 8 days was
\* reached
C10_Witness ==
    /\ exc[1] = "OSError"
    /\ deleted[1] # {}
    /\ \E f \in DOMAIN listing[1] : FaultHit(1, f) /\ listing[1][f].fault = "remove"
    /\ \E f \in todo[1] :
          /\ fs[f].kind = "file"
          /\ fs[f].fault = "none"
          /\ nowT[1] - fs[f].mtime >= (RetentionDays + 1) * Day

\* the required keys the environment of run r lacks, .env included
Unset(r) == RequiredKeys \ DOMAIN environ[r]

\* run r has passed the check of line 35
PastCheck(r) == pc[r] \notin {"off", "logging", "dotenv", "checkenv"}

\* C4, as claimed: a required key missing from the environment makes startup
\* fail with an error that names every missing key, before any file or network
\* operation: no log file opened, no backup directory created, no storage
\* client built, no stage run.
C4_FailsBeforeAnyFileOperation ==
    \A r \in Runs :
        (PastCheck(r) /\ Unset(r) # {}) =>
            /\ pc[r] = "crashed"
            /\ exc[r] = "ValueError"
            /\ \A k \in Unset(r) : Contains(errmsg[r], k)
            /\ ~Did(r, "open:database_backup.log")
            /\ ~Did(r, "makedirs")
            /\ ~Did(r, "create_client")
            /\ ~Did(r, "backup_database:call")

\* C4, amended: a required key missing from the environment makes startup fail
\* with a ValueError that names every missing key and no key that is set; by
\* then logging has opened database_backup.log and load_dotenv has read .env,
\* and nothing else has happened: no backup directory created, no storage
\* client built, no stage run.
C4_FailsAfterLoggingOnly ==
    \A r \in Runs :
        /\ (PastCheck(r) /\ Unset(r) # {}) =>
              /\ pc[r] = "crashed"
              /\ exc[r] = "ValueError"
              /\ \A k \in Unset(r) : Contains(errmsg[r], k)
              /\ \A k \in Keys \ Unset(r) : ~Contains(errmsg[r], k)
              /\ events[r] = << "open:database_backup.log", "read:.env" >>
              /\ uploads = <<>>
              /\ DOMAIN fs = {}
        /\ exc[r] = "ValueError" => Unset(r) # {}

\* startup failed for two missing keys, the password one of them
C4_Witness ==
    /\ exc[1] = "ValueError"
    /\ Cardinality(Unset(1)) = 2
    /\ "DB_PASSWORD" \in Unset(1)
    /\ dirExists = FALSE

\* C5, as claimed: when a stage runs, every required value is present and not
\* empty.
C5_StagesSeeNonEmptyValues ==
    \A r \in Runs :
        Did(r, "backup_database:call") =>
            \A k \in RequiredKeys : Config(r)[k] \notin {None, ""}

\* C7, as claimed: every successful dump has its own file db_backup_<timestamp>.sql
\* holding its output, also when two invocations fall in the same second: no
\* file of an earlier successful dump is overwritten or truncated.
C7_EveryDumpKeepsItsOwnFile ==
    LET done == {r \in Runs : proc[r] = "zero"} IN
        /\ \A r \in done :
              /\ IsFile(fs, Basename(ret[r]))
              /\ fs[Basename(ret[r])].content = DumpOut(r)
        /\ \A r1, r2 \in done : r1 # r2 => ret[r1] # ret[r2]

\* C8, as claimed: the password reaches the dump tool through the environment
\* of the child process only; no element of the argument list given to
\* subprocess.run holds it.
C8_PasswordNotInArguments ==
    \A r \in Runs :
        (proc[r] \in {"zero", "nonzero"} /\ Config(r).DB_PASSWORD # "") =>
            /\ \A i \in 1..Len(argv[r]) :
                  ~Contains(argv[r][i], Config(r).DB_PASSWORD)
            /\ "PGPASSWORD" \in DOMAIN child_env[r]
            /\ child_env[r]["PGPASSWORD"] = Config(r).DB_PASSWORD

====
